---- MODULE Spec2Model ----
(***************************************************************************)
(* truncate_messages (utils.py): the conversation-history window manager   *)
(* of the researcher agent.  A message is a record                          *)
(*   type         "human" | "ai" | "tool" | "system"  (the message class)   *)
(*   len          len(content), in characters                               *)
(*   tool_calls   sequence of [shape, id]; shape "obj" is a tool call with  *)
(*                an id attribute, shape "dict" a mapping with an id key    *)
(*   tool_call_id the id a ToolMessage answers                              *)
(*   pos          the identity of the message object: its position in the   *)
(*                history handed to truncate_messages                       *)
(* The function is modelled stage by stage: filtering, grouping, the        *)
(* backward selection loop (one step per sequence), the reversal, the       *)
(* validation pass, the final safety check and the return.                  *)
(***************************************************************************)
EXTENDS Integers, Sequences, FiniteSets, TLC

\* ---------------------------------------------------------------- bounds
MaxLen == 3
MaxToolLen == 4

\* ------------------------------------------------------ program constants
chars_per_token == 4
CeilingTokens == 30000
ResearcherMaxMessages == 10
ResearcherMaxTokens == 100000

\* ------------------------------------------------------------- messages
NoId == ""
T1 == "t1"
T2 == "t2"

Msg(t, l, tc, tcid) == [type |-> t, len |-> l, tool_calls |-> tc, tool_call_id |-> tcid, pos |-> 0]

NoMessage == Msg("none", 0, <<>>, NoId)

Call(s, id) == [shape |-> s, id |-> id]

\* content lengths: 8 characters are 2 tokens, 120004 characters are 30001
\* tokens, just over the per-message ceiling
SmallContent == 2 * chars_per_token
BigContent == (CeilingTokens + 1) * chars_per_token

HumanMessage(l) == Msg("human", l, <<>>, NoId)
AIMessage(l, tc) == Msg("ai", l, tc, NoId)
ToolMessage(l, id) == Msg("tool", l, <<>>, id)
SystemMessage(l) == Msg("system", l, <<>>, NoId)

\* tool_calls values of the assistant turns of the bounded histories
ToolCallLists ==
    { <<Call("obj", T1)>>, <<Call("dict", T1)>>,
      <<Call("obj", T1), Call("obj", T2)>>, <<Call("dict", T1), Call("dict", T2)>>,
      <<Call("obj", NoId)>> }

Alphabet ==
    { HumanMessage(SmallContent), HumanMessage(BigContent), AIMessage(SmallContent, <<>>),
      ToolMessage(SmallContent, T1), ToolMessage(BigContent, T1), ToolMessage(SmallContent, T2),
      SystemMessage(SmallContent) }
    \cup { AIMessage(SmallContent, tc) : tc \in ToolCallLists }

ToolAlphabet ==
    { HumanMessage(SmallContent), ToolMessage(SmallContent, T1), ToolMessage(BigContent, T1),
      ToolMessage(SmallContent, T2) }
    \cup { AIMessage(SmallContent, tc) : tc \in ToolCallLists \ { <<Call("obj", NoId)>> } }

SeqsUpTo(S, n) == UNION { [1..k -> S] : k \in 0..n }

\* the message objects of a history are distinct objects: pos tells them apart
WithPos(h) == [i \in 1..Len(h) |-> [h[i] EXCEPT !.pos = i]]

\* the histories of Spec: every message shape, up to MaxLen messages
Histories == { WithPos(h) : h \in SeqsUpTo(Alphabet, MaxLen) }

\* the histories of SpecTools: tool conversations, up to MaxToolLen messages
ToolHistories == { WithPos(h) : h \in SeqsUpTo(ToolAlphabet, MaxToolLen) }

\* system_message is None, or a SystemMessage of 16 characters (4 tokens)
SuppliedSystem == SystemMessage(4 * chars_per_token)

Config(sysmsg, maxm, maxt) ==
    [system_message |-> sysmsg, max_messages |-> maxm, max_tokens_approx |-> maxt]

\* the calls: the researcher's, a tight turn count, a size budget that holds
\* the system message and one small message, a size budget below the system
\* message, and a call without system message
Configs ==
    { Config(SuppliedSystem, ResearcherMaxMessages, ResearcherMaxTokens),
      Config(SuppliedSystem, 2, ResearcherMaxTokens),
      Config(SuppliedSystem, ResearcherMaxMessages, 6),
      Config(SuppliedSystem, ResearcherMaxMessages, 3),
      Config(NoMessage, ResearcherMaxMessages, ResearcherMaxTokens) }

\* ------------------------------------------------------ helper operators
RECURSIVE Reverse(_)
Reverse(s) == IF s = <<>> THEN <<>> ELSE Append(Reverse(Tail(s)), Head(s))

Range(s) == { s[i] : i \in 1..Len(s) }

get_message_tokens(msg) == IF msg.len # 0 THEN msg.len \div chars_per_token ELSE 0

\* sum(get_message_tokens(msg) for msg in seq)
RECURSIVE SumTokens(_)
SumTokens(s) == IF s = <<>> THEN 0 ELSE get_message_tokens(Head(s)) + SumTokens(Tail(s))

IsSystem(msg) == msg.type = "system"
IsAI(msg) == msg.type = "ai"
IsTool(msg) == msg.type = "tool"
IsHuman(msg) == msg.type = "human"

\* isinstance(msg, AIMessage) and msg.tool_calls
HasToolCalls(msg) == IsAI(msg) /\ msg.tool_calls # <<>>

\* grouping reads ids only through hasattr(tool_call, 'id')
PendingIdsOf(msg) ==
    { msg.tool_calls[i].id : i \in { k \in 1..Len(msg.tool_calls) :
          msg.tool_calls[k].shape = "obj" /\ msg.tool_calls[k].id # NoId } }

\* validation and the final check read tool_call.id or tool_call.get('id')
RequiredIdsOf(msg) ==
    { msg.tool_calls[i].id : i \in { k \in 1..Len(msg.tool_calls) : msg.tool_calls[k].id # NoId } }

\* ids of the ToolMessages of a list (the keys of all_tool_messages_by_id)
ToolIdsOf(msgs) == { msgs[i].tool_call_id : i \in { k \in 1..Len(msgs) :
                        IsTool(msgs[k]) /\ msgs[k].tool_call_id # NoId } }

\* the system messages of the input not filtered out
FilterSystemOff(msgs) == msgs

FilterSystem(msgs) == SelectSeq(msgs, LAMBDA m : ~IsSystem(m))

\* ------------------------------------------------------------- grouping
Sequence(seq, is_complete) == [seq |-> seq, is_complete |-> is_complete]

GroupInit == [sequences |-> <<>>, current_sequence |-> <<>>, pending_tool_call_ids |-> {}]

\* sequences.append((current_sequence, is_complete)) when there is a pending
\* sequence; with reset, current_sequence and pending_tool_call_ids are cleared
CloseCurrent(g) ==
    IF g.current_sequence # <<>>
    THEN [sequences |-> Append(g.sequences,
                               Sequence(g.current_sequence, g.pending_tool_call_ids = {})),
          current_sequence |-> <<>>, pending_tool_call_ids |-> {}]
    ELSE g

\* one iteration of "for message in filtered_messages"
GroupStep(g, message) ==
    IF IsAI(message)
    THEN LET c == CloseCurrent(g) IN
         IF HasToolCalls(message)
         THEN [c EXCEPT !.current_sequence = Append(c.current_sequence, message),
                        !.pending_tool_call_ids = c.pending_tool_call_ids \cup PendingIdsOf(message)]
         ELSE [c EXCEPT !.sequences = Append(c.sequences, Sequence(<<message>>, TRUE))]
    ELSE IF IsTool(message)
    THEN IF message.tool_call_id # NoId /\ message.tool_call_id \in g.pending_tool_call_ids
         THEN [g EXCEPT !.current_sequence = Append(g.current_sequence, message),
                        !.pending_tool_call_ids = g.pending_tool_call_ids \ {message.tool_call_id}]
         ELSE LET c == CloseCurrent(g) IN
              [sequences |-> Append(c.sequences, Sequence(<<message>>, TRUE)),
               current_sequence |-> <<>>, pending_tool_call_ids |-> {}]
    ELSE LET c == CloseCurrent(g) IN
         [c EXCEPT !.sequences = Append(c.sequences, Sequence(<<message>>, TRUE))]

RECURSIVE GroupLoop(_, _)
GroupLoop(g, msgs) ==
    IF msgs = <<>> THEN g ELSE GroupLoop(GroupStep(g, Head(msgs)), Tail(msgs))

\* the (sequence, is_complete) list built from filtered_messages
GroupSequences(filtered) == CloseCurrent(GroupLoop(GroupInit, filtered)).sequences

\* ------------------------------------------------------------ selection
\* the loop state of "for seq, is_complete in reversed(sequences)": k is the
\* index of the next sequence to look at (0: the loop is over), stopped records
\* the break
\* the size of the system message not charged to the budget
SelectInitNoSystem(sequences, system_tokens) ==
    [k |-> Len(sequences), messages_to_add |-> <<>>, total_tokens_approx |-> 0,
     message_count |-> 0, stopped |-> FALSE]

SelectInit(sequences, system_tokens) ==
    [k |-> Len(sequences), messages_to_add |-> <<>>, total_tokens_approx |-> system_tokens,
     message_count |-> 0, stopped |-> FALSE]

has_ai_with_tool_calls(seq) == \E i \in 1..Len(seq) : HasToolCalls(seq[i])

SkipsIncomplete(s) == ~s.is_complete /\ has_ai_with_tool_calls(s.seq)

HasOversized(seq) == \E i \in 1..Len(seq) : get_message_tokens(seq[i]) > CeilingTokens

\* the ceiling applied also when nothing has been accepted
SkipsOversizedAlways(sel, s) == HasOversized(s.seq)

SkipsOversized(sel, s) == HasOversized(s.seq) /\ sel.messages_to_add # <<>>

Fits(sel, s, maxm, maxt) ==
    /\ sel.message_count + Len(s.seq) <= maxm
    /\ sel.total_tokens_approx + SumTokens(s.seq) <= maxt

\* the loop with break for continue on a sequence with a large message
SelectStepBreaks(sel, s, maxm, maxt) ==
    IF SkipsIncomplete(s) THEN [sel EXCEPT !.k = sel.k - 1]
    ELSE IF SkipsOversized(sel, s) THEN [sel EXCEPT !.k = 0, !.stopped = TRUE]
    ELSE IF Fits(sel, s, maxm, maxt)
    THEN [k |-> sel.k - 1,
          messages_to_add |-> sel.messages_to_add \o s.seq,
          total_tokens_approx |-> sel.total_tokens_approx + SumTokens(s.seq),
          message_count |-> sel.message_count + Len(s.seq),
          stopped |-> FALSE]
    ELSE [sel EXCEPT !.k = 0, !.stopped = TRUE]

\* the loop going on past a sequence that does not fit
SelectStepGapFills(sel, s, maxm, maxt) ==
    IF SkipsIncomplete(s) THEN [sel EXCEPT !.k = sel.k - 1]
    ELSE IF SkipsOversized(sel, s) THEN [sel EXCEPT !.k = sel.k - 1]
    ELSE IF Fits(sel, s, maxm, maxt)
    THEN [k |-> sel.k - 1,
          messages_to_add |-> sel.messages_to_add \o s.seq,
          total_tokens_approx |-> sel.total_tokens_approx + SumTokens(s.seq),
          message_count |-> sel.message_count + Len(s.seq),
          stopped |-> FALSE]
    ELSE [sel EXCEPT !.k = sel.k - 1]

\* one iteration of the backward loop over sequence s = sequences[sel.k]
SelectStep(sel, s, maxm, maxt) ==
    IF SkipsIncomplete(s) THEN [sel EXCEPT !.k = sel.k - 1]
    ELSE IF SkipsOversized(sel, s) THEN [sel EXCEPT !.k = sel.k - 1]
    ELSE IF Fits(sel, s, maxm, maxt)
    THEN [k |-> sel.k - 1,
          messages_to_add |-> sel.messages_to_add \o s.seq,
          total_tokens_approx |-> sel.total_tokens_approx + SumTokens(s.seq),
          message_count |-> sel.message_count + Len(s.seq),
          stopped |-> FALSE]
    ELSE [sel EXCEPT !.k = 0, !.stopped = TRUE]

RECURSIVE SelectLoop(_, _, _, _)
SelectLoop(sel, sequences, maxm, maxt) ==
    IF sel.k = 0 THEN sel
    ELSE SelectLoop(SelectStep(sel, sequences[sel.k], maxm, maxt), sequences, maxm, maxt)

\* the reversal left out
ReverseMessagesOff(msgs) == msgs

\* messages_to_add.reverse()
ReverseMessages(msgs) == Reverse(msgs)

\* ----------------------------------------------------------- validation
\* a ToolMessage whose tool_call_id is one of ids
AnswersOneOf(msg, ids) == IsTool(msg) /\ msg.tool_call_id # NoId /\ msg.tool_call_id \in ids

\* "while i < len(...)": skip the ToolMessages that belong to a skipped
\* AIMessage; the index of the first message that is not one of them
RECURSIVE SkipFollowing(_, _, _)
SkipFollowing(msgs, i, ids) ==
    IF i <= Len(msgs) /\ AnswersOneOf(msgs[i], ids) THEN SkipFollowing(msgs, i + 1, ids) ELSE i

\* the loop that includes the ToolMessages that follow an included AIMessage:
\* the first ToolMessage of each required id is appended, a repeated id is
\* passed over, anything else ends the loop
RECURSIVE IncludeFollowing(_, _, _, _, _)
IncludeFollowing(msgs, j, required, included, acc) ==
    IF j > Len(msgs) THEN [j |-> j, acc |-> acc]
    ELSE IF IsAI(msgs[j]) \/ IsHuman(msgs[j]) THEN [j |-> j, acc |-> acc]
    ELSE IF AnswersOneOf(msgs[j], required)
    THEN IF msgs[j].tool_call_id \notin included
         THEN IncludeFollowing(msgs, j + 1, required, included \cup {msgs[j].tool_call_id},
                               Append(acc, msgs[j]))
         ELSE IncludeFollowing(msgs, j + 1, required, included, acc)
    ELSE [j |-> j, acc |-> acc]

RECURSIVE ValidateLoop(_, _, _, _)
ValidateLoop(msgs, i, all_ids, validated) ==
    IF i > Len(msgs) THEN validated
    ELSE LET msg == msgs[i] IN
         IF HasToolCalls(msg)
         THEN LET required == RequiredIdsOf(msg) IN
              IF required = {}
              THEN ValidateLoop(msgs, i + 1, all_ids, Append(validated, msg))
              ELSE IF required \ all_ids # {}
              THEN ValidateLoop(msgs, SkipFollowing(msgs, i + 1, required), all_ids, validated)
              ELSE LET r == IncludeFollowing(msgs, i + 1, required, {}, Append(validated, msg))
                   IN  ValidateLoop(msgs, r.j, all_ids, r.acc)
         ELSE IF IsTool(msg)
         THEN ValidateLoop(msgs, i + 1, all_ids, validated)
         ELSE ValidateLoop(msgs, i + 1, all_ids, Append(validated, msg))

\* validated_messages, from the reversed messages_to_add
ValidateMessages(msgs) == ValidateLoop(msgs, 1, ToolIdsOf(msgs), <<>>)

\* ---------------------------------------------------- final safety check
\* the double check taken as passed without scanning
ScanAheadAll(msgs, j, required, found) == required

\* the scan ahead that collects tool_messages_found: it walks over every
\* ToolMessage up to the next AI, human or system message
RECURSIVE ScanAhead(_, _, _, _)
ScanAhead(msgs, j, required, found) ==
    IF j > Len(msgs) THEN found
    ELSE IF ~IsTool(msgs[j]) THEN found
    ELSE ScanAhead(msgs, j + 1, required,
                   IF AnswersOneOf(msgs[j], required) THEN found \cup {msgs[j].tool_call_id}
                   ELSE found)

\* the including loop of the final check: it ends at the first ToolMessage
\* that is not a first answer to a required id
RECURSIVE FinalInclude(_, _, _, _, _)
FinalInclude(msgs, j, required, included, acc) ==
    IF j > Len(msgs) THEN [j |-> j, acc |-> acc]
    ELSE IF AnswersOneOf(msgs[j], required) /\ msgs[j].tool_call_id \notin included
    THEN FinalInclude(msgs, j + 1, required, included \cup {msgs[j].tool_call_id},
                      Append(acc, msgs[j]))
    ELSE [j |-> j, acc |-> acc]

RECURSIVE FinalLoop(_, _, _, _)
FinalLoop(msgs, i, tool_ids, final) ==
    IF i > Len(msgs) THEN final
    ELSE LET msg == msgs[i] IN
         IF HasToolCalls(msg)
         THEN LET required_ids == RequiredIdsOf(msg)
                  all_tool_call_ids_present == required_ids # {} /\ required_ids \subseteq tool_ids
              IN  IF all_tool_call_ids_present /\ ScanAhead(msgs, i + 1, required_ids, {}) = required_ids
                  THEN LET r == FinalInclude(msgs, i + 1, required_ids, {}, Append(final, msg))
                       IN  FinalLoop(msgs, r.j, tool_ids, r.acc)
                  ELSE FinalLoop(msgs, SkipFollowing(msgs, i + 1, required_ids), tool_ids, final)
         ELSE IF IsTool(msg)
         THEN FinalLoop(msgs, i + 1, tool_ids, final)
         ELSE FinalLoop(msgs, i + 1, tool_ids, Append(final, msg))

\* the final safety check left out
FinalSafetyCheckOff(msgs) == msgs

\* final_cleaned_messages, from messages_to_process
FinalSafetyCheck(msgs) == FinalLoop(msgs, 1, ToolIdsOf(msgs), <<>>)

\* result with its leading system message taken off (messages_to_process)
MessagesToProcess(res) == IF res # <<>> /\ IsSystem(res[1]) THEN Tail(res) ELSE res

SystemMsgInResult(res) == IF res # <<>> /\ IsSystem(res[1]) THEN res[1] ELSE NoMessage

\* the return statements at the end of truncate_messages
ReturnValue(res, sysmsg, final) ==
    IF SystemMsgInResult(res) # NoMessage THEN <<SystemMsgInResult(res)>> \o final
    ELSE IF sysmsg # NoMessage THEN <<sysmsg>> \o final
    ELSE final

\* result = [system_message] if system_message else []
ResultInit(sysmsg) == IF sysmsg # NoMessage THEN <<sysmsg>> ELSE <<>>

system_tokens_of(sysmsg) == IF sysmsg # NoMessage THEN get_message_tokens(sysmsg) ELSE 0

\* truncate_messages as a function of its arguments
truncate_messages(msgs, sysmsg, maxm, maxt) ==
    LET filtered == FilterSystem(msgs) IN
    IF filtered = <<>> THEN ResultInit(sysmsg)
    ELSE LET sequences == GroupSequences(filtered)
             sel == SelectLoop(SelectInit(sequences, system_tokens_of(sysmsg)), sequences, maxm, maxt)
             validated == ValidateMessages(ReverseMessages(sel.messages_to_add))
             res == ResultInit(sysmsg) \o validated
         IN  ReturnValue(res, sysmsg, FinalSafetyCheck(MessagesToProcess(res)))

\* -------------------------------------------------------- state machine
VARIABLES messages, system_message, max_messages, max_tokens_approx,
          pc, result, filtered_messages, sequences, sel,
          validated_messages, final_cleaned_messages, output

vars == <<messages, system_message, max_messages, max_tokens_approx,
          pc, result, filtered_messages, sequences, sel,
          validated_messages, final_cleaned_messages, output>>

args == <<messages, system_message, max_messages, max_tokens_approx>>

\* the call: the arguments are bound, nothing has run
Called(histories) ==
    /\ messages \in histories
    /\ \E c \in Configs : /\ system_message = c.system_message
                          /\ max_messages = c.max_messages
                          /\ max_tokens_approx = c.max_tokens_approx
    /\ pc = "start"
    /\ result = <<>>
    /\ filtered_messages = <<>>
    /\ sequences = <<>>
    /\ sel = SelectInit(<<>>, 0)
    /\ validated_messages = <<>>
    /\ final_cleaned_messages = <<>>
    /\ output = <<>>

Init == Called(Histories)

InitTools == Called(ToolHistories)

\* "if not filtered_messages: return result"
ReturnEmpty ==
    /\ pc = "start"
    /\ FilterSystem(messages) = <<>>
    /\ result' = ResultInit(system_message)
    /\ output' = ResultInit(system_message)
    /\ pc' = "done"
    /\ UNCHANGED <<args, filtered_messages, sequences, sel, validated_messages,
                   final_cleaned_messages>>

\* result and filtered_messages are set up
Filter ==
    /\ pc = "start"
    /\ FilterSystem(messages) # <<>>
    /\ result' = ResultInit(system_message)
    /\ filtered_messages' = FilterSystem(messages)
    /\ pc' = "group"
    /\ UNCHANGED <<args, sequences, sel, validated_messages, final_cleaned_messages, output>>

\* the grouping loop, and the initialisation of the selection loop
Group ==
    /\ pc = "group"
    /\ sequences' = GroupSequences(filtered_messages)
    /\ sel' = SelectInit(GroupSequences(filtered_messages), system_tokens_of(system_message))
    /\ pc' = "select"
    /\ UNCHANGED <<args, result, filtered_messages, validated_messages,
                   final_cleaned_messages, output>>

\* "continue" on an incomplete tool call sequence
SkipIncomplete ==
    /\ pc = "select"
    /\ sel.k > 0
    /\ SkipsIncomplete(sequences[sel.k])
    /\ sel' = SelectStep(sel, sequences[sel.k], max_messages, max_tokens_approx)
    /\ UNCHANGED <<args, pc, result, filtered_messages, sequences, validated_messages,
                   final_cleaned_messages, output>>

\* "continue" on a sequence with an extremely large message
SkipOversized ==
    /\ pc = "select"
    /\ sel.k > 0
    /\ ~SkipsIncomplete(sequences[sel.k])
    /\ SkipsOversized(sel, sequences[sel.k])
    /\ sel' = SelectStep(sel, sequences[sel.k], max_messages, max_tokens_approx)
    /\ UNCHANGED <<args, pc, result, filtered_messages, sequences, validated_messages,
                   final_cleaned_messages, output>>

\* the sequence fits: messages_to_add.extend(seq)
Accept ==
    /\ pc = "select"
    /\ sel.k > 0
    /\ ~SkipsIncomplete(sequences[sel.k])
    /\ ~SkipsOversized(sel, sequences[sel.k])
    /\ Fits(sel, sequences[sel.k], max_messages, max_tokens_approx)
    /\ sel' = SelectStep(sel, sequences[sel.k], max_messages, max_tokens_approx)
    /\ UNCHANGED <<args, pc, result, filtered_messages, sequences, validated_messages,
                   final_cleaned_messages, output>>

\* the sequence does not fit: break
Stop ==
    /\ pc = "select"
    /\ sel.k > 0
    /\ ~SkipsIncomplete(sequences[sel.k])
    /\ ~SkipsOversized(sel, sequences[sel.k])
    /\ ~Fits(sel, sequences[sel.k], max_messages, max_tokens_approx)
    /\ sel' = SelectStep(sel, sequences[sel.k], max_messages, max_tokens_approx)
    /\ UNCHANGED <<args, pc, result, filtered_messages, sequences, validated_messages,
                   final_cleaned_messages, output>>

\* the loop is over: messages_to_add.reverse()
ReverseToAdd ==
    /\ pc = "select"
    /\ sel.k = 0
    /\ sel' = [sel EXCEPT !.messages_to_add = ReverseMessages(sel.messages_to_add)]
    /\ pc' = "validate"
    /\ UNCHANGED <<args, result, filtered_messages, sequences, validated_messages,
                   final_cleaned_messages, output>>

\* the validation pass, and result.extend(validated_messages)
Validate ==
    /\ pc = "validate"
    /\ validated_messages' = ValidateMessages(sel.messages_to_add)
    /\ result' = result \o ValidateMessages(sel.messages_to_add)
    /\ pc' = "final"
    /\ UNCHANGED <<args, filtered_messages, sequences, sel, final_cleaned_messages, output>>

\* the final safety check
FinalCheck ==
    /\ pc = "final"
    /\ final_cleaned_messages' = FinalSafetyCheck(MessagesToProcess(result))
    /\ pc' = "return"
    /\ UNCHANGED <<args, result, filtered_messages, sequences, sel, validated_messages, output>>

\* the system message is prepended and the list returned
Return ==
    /\ pc = "return"
    /\ output' = ReturnValue(result, system_message, final_cleaned_messages)
    /\ pc' = "done"
    /\ UNCHANGED <<args, result, filtered_messages, sequences, sel, validated_messages,
                   final_cleaned_messages>>

Next ==
    \/ ReturnEmpty
    \/ Filter
    \/ Group
    \/ SkipIncomplete
    \/ SkipOversized
    \/ Accept
    \/ Stop
    \/ ReverseToAdd
    \/ Validate
    \/ FinalCheck
    \/ Return

Spec == Init /\ [][Next]_vars

SpecTools == InitTools /\ [][Next]_vars

\* ------------------------------------------------------------ properties
Done == pc = "done"

\* the non-system turns of the returned list
OutputTurns == FilterSystem(output)

InOutput(msg) == \E i \in 1..Len(output) : output[i] = msg

\* a system turn was supplied and the returned list starts with it
SystemFirst == system_message # NoMessage => (output # <<>> /\ output[1] = system_message)

\* C1 (atomicity of the output): the returned list holds no assistant turn with
\* tool calls unless every id that turn declares has a tool-result turn in the
\* list, and no tool-result turn unless an assistant turn declaring its
\* tool_call_id stands earlier in the list.
C1_Atomicity ==
    Done =>
        /\ \A i \in 1..Len(output) :
               HasToolCalls(output[i]) => RequiredIdsOf(output[i]) \subseteq ToolIdsOf(output)
        /\ \A j \in 1..Len(output) :
               IsTool(output[j]) =>
                   \E i \in 1..(j - 1) : /\ HasToolCalls(output[i])
                                         /\ output[j].tool_call_id \in RequiredIdsOf(output[i])

\* a returned list that holds an assistant turn declaring two ids and both answers
C1_Witness ==
    /\ Done
    /\ \E i \in 1..Len(output) : /\ HasToolCalls(output[i])
                                 /\ Cardinality(RequiredIdsOf(output[i])) = 2
                                 /\ Cardinality(ToolIdsOf(output)) = 2

\* the tool group of the history that starts at the assistant turn
\* filtered[i]: the turn and the tool-result turns that immediately follow it and
\* answer its declared ids, until another turn is reached or every declared id
\* has its answer
RECURSIVE GroupMembers(_, _, _, _)
GroupMembers(filtered, j, declared, answered) ==
    IF j > Len(filtered) \/ answered = declared THEN {}
    ELSE IF AnswersOneOf(filtered[j], declared)
    THEN {filtered[j]} \cup GroupMembers(filtered, j + 1, declared,
                                         answered \cup {filtered[j].tool_call_id})
    ELSE {}

ToolGroupAt(filtered, i) ==
    {filtered[i]} \cup GroupMembers(filtered, i + 1, RequiredIdsOf(filtered[i]), {})

\* C2 (groups are atomic in the output): of every tool group of the history
\* either all turns or no turn is in the returned list, and every tool-result
\* turn of the list belongs to the group of an assistant turn of the list.
C2_GroupsAtomic ==
    Done =>
        LET filtered == FilterSystem(messages)
            starts == { i \in 1..Len(filtered) : HasToolCalls(filtered[i]) }
        IN  /\ \A i \in starts :
                   \/ ToolGroupAt(filtered, i) \subseteq Range(output)
                   \/ ToolGroupAt(filtered, i) \cap Range(output) = {}
            /\ \A j \in 1..Len(output) :
                   IsTool(output[j]) =>
                       \E i \in starts : /\ InOutput(filtered[i])
                                         /\ output[j] \in ToolGroupAt(filtered, i)

\* the history is one assistant turn that declares ids, followed by one
\* tool-result turn per declared id
IsOneCompleteToolGroup(msgs) ==
    /\ msgs # <<>>
    /\ HasToolCalls(msgs[1])
    /\ RequiredIdsOf(msgs[1]) # {}
    /\ Len(msgs) = 1 + Cardinality(RequiredIdsOf(msgs[1]))
    /\ \A j \in 2..Len(msgs) : IsTool(msgs[j])
    /\ ToolIdsOf(msgs) = RequiredIdsOf(msgs[1])

\* the whole history is within both budgets, the system turn counted in
WithinBudgets(msgs) ==
    /\ Len(msgs) <= max_messages
    /\ system_tokens_of(system_message) + SumTokens(msgs) <= max_tokens_approx

\* C3 (a complete tool group that fits is delivered whole): when the history
\* is an assistant turn with declared ids followed by one tool-result turn per
\* id, within both budgets, the returned list is the system turn, the assistant
\* turn and all its tool-result turns.
C3_CompleteGroupDelivered ==
    (Done /\ IsOneCompleteToolGroup(messages) /\ WithinBudgets(messages))
        => output = ResultInit(system_message) \o messages

\* every group of the history is an incomplete tool group
AllGroupsIncomplete == \A k \in 1..Len(sequences) : SkipsIncomplete(sequences[k])

\* C4 as claimed (non-emptiness): for a non-empty history the returned list
\* holds the system turn and at least one other turn, unless every group is an
\* incomplete tool group.
C4_NonEmptyAsClaimed ==
    (Done /\ FilterSystem(messages) # <<>>)
        => /\ SystemFirst
           /\ OutputTurns # <<>> \/ AllGroupsIncomplete

\* the index of the newest group that is not an incomplete tool group (0: none)
NewestSendable ==
    LET S == { k \in 1..Len(sequences) : ~SkipsIncomplete(sequences[k]) }
    IN  IF S = {} THEN 0 ELSE CHOOSE k \in S : \A l \in S : l <= k

IsSimpleTurn(msg) == IsHuman(msg) \/ (IsAI(msg) /\ ~HasToolCalls(msg))

\* C4 as amended: for a non-empty history the returned list starts with the
\* supplied system turn, and it holds the newest group that is not an
\* incomplete tool group whenever that group is a user or plain assistant turn
\* that fits max_messages and, together with the system turn, max_tokens_approx;
\* the per-message ceiling never refuses that group.
C4_NonEmptyAmended ==
    (Done /\ FilterSystem(messages) # <<>>)
        => /\ SystemFirst
           /\ LET k == NewestSendable IN
              (/\ k > 0
               /\ IsSimpleTurn(sequences[k].seq[1])
               /\ WithinBudgets(sequences[k].seq))
                  => InOutput(sequences[k].seq[1])

\* an oversized user turn, older than an incomplete tool group, is returned
C4_Witness ==
    /\ Done
    /\ NewestSendable > 0
    /\ NewestSendable < Len(sequences)
    /\ HasOversized(sequences[NewestSendable].seq)
    /\ IsSimpleTurn(sequences[NewestSendable].seq[1])
    /\ InOutput(sequences[NewestSendable].seq[1])

\* C5 as claimed (budget respect): the returned list holds at most max_messages
\* non-system turns, and its summed size is at most max_tokens_approx, the
\* only excess allowed being that of one group that was accepted.
C5_BudgetAsClaimed ==
    Done =>
        /\ Len(OutputTurns) <= max_messages
        /\ \/ SumTokens(output) <= max_tokens_approx
           \/ \E k \in 1..Len(sequences) :
                  /\ Range(sequences[k].seq) \cap Range(output) # {}
                  /\ SumTokens(SelectSeq(output, LAMBDA m : m \notin Range(sequences[k].seq)))
                         <= max_tokens_approx

\* C5 as amended: the returned list holds at most max_messages non-system
\* turns; its summed size, system turn included, is at most max_tokens_approx
\* whenever it holds a non-system turn, no group being exempt; it exceeds the
\* size budget only when it is the system turn alone and that turn is larger
\* than the budget.
C5_BudgetAmended ==
    Done =>
        /\ Len(OutputTurns) <= max_messages
        /\ \/ SumTokens(output) <= max_tokens_approx
           \/ /\ output = <<system_message>>
              /\ get_message_tokens(system_message) > max_tokens_approx

\* a run that ended the scan on the size budget and returned a turn that
\* fills the budget exactly
C5_Witness ==
    /\ Done
    /\ sel.stopped
    /\ OutputTurns # <<>>
    /\ SumTokens(output) = max_tokens_approx

\* C6 (order-preserving subsequence): the non-system turns of the returned
\* list are turns of the history, none repeated, in the order of the history.
C6_OrderPreserved ==
    Done =>
        /\ \A i \in 1..Len(OutputTurns) : OutputTurns[i] \in Range(messages)
        /\ \A i, j \in 1..Len(OutputTurns) : i < j => OutputTurns[i].pos < OutputTurns[j].pos

\* C7 (idempotence): truncate_messages applied to its own result, with the
\* same system turn and budgets, returns that result unchanged.
C7_Idempotent ==
    Done => truncate_messages(output, system_message, max_messages, max_tokens_approx) = output

\* the history without the turns of its oldest group
WithoutOldestGroup ==
    SubSeq(filtered_messages, Len(sequences[1].seq) + 1, Len(filtered_messages))

\* the selection loop of a call on msgs ends on a break
Stops(msgs) ==
    LET sq == GroupSequences(FilterSystem(msgs)) IN
    SelectLoop(SelectInit(sq, system_tokens_of(system_message)), sq,
               max_messages, max_tokens_approx).stopped

\* C8 (suffix bias): when no group is refused for a budget in the run on the
\* history nor in the run on the history without its oldest group, the result
\* for the shorter history is the result for the history with the turns of
\* that oldest group removed.
C8_SuffixBias ==
    (Done /\ sequences # <<>> /\ ~sel.stopped /\ ~Stops(WithoutOldestGroup))
        => truncate_messages(WithoutOldestGroup, system_message, max_messages, max_tokens_approx)
               = SelectSeq(output, LAMBDA m : m \notin Range(sequences[1].seq))

Min(a, b) == IF a <= b THEN a ELSE b

\* the last n elements of a sequence
LastN(s, n) == SubSeq(s, Len(s) - n + 1, Len(s))

\* C9 (simple histories): for a history of user and plain assistant turns, none
\* above the per-message ceiling, whose min(max_messages, length) newest turns
\* fit the size budget together with the system turn, the returned list is the
\* system turn followed by exactly those newest turns in their order.
C9_SimpleHistory ==
    LET n == Min(max_messages, Len(messages)) IN
    (/\ Done
     /\ \A i \in 1..Len(messages) : IsSimpleTurn(messages[i])
     /\ ~HasOversized(messages)
     /\ system_tokens_of(system_message) + SumTokens(LastN(messages, n)) <= max_tokens_approx)
        => output = ResultInit(system_message) \o LastN(messages, n)

\* three simple turns under max_messages = 2: the two newest are returned
C9_Witness ==
    /\ Done
    /\ Len(messages) > max_messages
    /\ \A i \in 1..Len(messages) : IsSimpleTurn(messages[i])
    /\ ~HasOversized(messages)
    /\ OutputTurns = LastN(messages, max_messages)

\* the selection loop is about to look at a sequence that holds a message
\* above the ceiling
AtOversized == pc = "select" /\ sel.k > 0 /\ HasOversized(sequences[sel.k].seq)

Skipped == sel' = [sel EXCEPT !.k = sel.k - 1]

Accepted ==
    /\ sel'.messages_to_add = sel.messages_to_add \o sequences[sel.k].seq
    /\ sel'.k = sel.k - 1
    /\ ~sel'.stopped

\* the sequence under the scan fits what is left of both budgets
FitsNow ==
    /\ sel.message_count + Len(sequences[sel.k].seq) <= max_messages
    /\ sel.total_tokens_approx + SumTokens(sequences[sel.k].seq) <= max_tokens_approx

\* the sequence under the scan is a tool call sequence with unanswered ids
IncompleteNow ==
    /\ ~sequences[sel.k].is_complete
    /\ \E i \in 1..Len(sequences[sel.k].seq) : HasToolCalls(sequences[sel.k].seq[i])

ScanEnded == sel'.k = 0 /\ sel'.stopped /\ sel'.messages_to_add = sel.messages_to_add

\* the history is a single user or plain assistant turn above the ceiling
OnlyOversizedTurn ==
    /\ Len(FilterSystem(messages)) = 1
    /\ IsSimpleTurn(FilterSystem(messages)[1])
    /\ HasOversized(FilterSystem(messages))

\* C10 as claimed (per-message ceiling): a group with a turn above the ceiling
\* is skipped, the scan going on, when a group has been accepted already; it is
\* accepted when nothing has been accepted yet; a history whose only group
\* is one oversized turn yields that turn.
C10_CeilingAsClaimed ==
    [][/\ AtOversized => IF sel.messages_to_add # <<>> THEN Skipped ELSE Accepted
       /\ (pc = "return" /\ OnlyOversizedTurn)
              => \E i \in 1..Len(output') : output'[i] = FilterSystem(messages)[1]]_vars

\* C10 as amended: a group with a turn above the ceiling is skipped, the scan
\* going on, when a group has been accepted already; when nothing has been
\* accepted yet the ceiling is not applied and the group is treated like any
\* other: skipped if it is an incomplete tool group, accepted if it fits
\* max_messages and max_tokens_approx (system turn counted), and otherwise the
\* scan ends; a history whose only group is one oversized user or plain
\* assistant turn that fits both budgets yields that turn.
C10_CeilingAmended ==
    [][/\ AtOversized =>
              IF sel.messages_to_add # <<>> \/ IncompleteNow THEN Skipped
              ELSE IF FitsNow THEN Accepted
              ELSE ScanEnded
       /\ (pc = "return" /\ OnlyOversizedTurn /\ WithinBudgets(FilterSystem(messages)))
              => \E i \in 1..Len(output') : output'[i] = FilterSystem(messages)[1]]_vars

\* an oversized turn was passed over and an older turn was accepted after it
C10_Witness ==
    /\ Done
    /\ \E i, j \in 1..Len(filtered_messages) :
           /\ i < j
           /\ get_message_tokens(filtered_messages[j]) > CeilingTokens
           /\ ~InOutput(filtered_messages[j])
           /\ InOutput(filtered_messages[i])

\* C11 (the system turn): when a system turn is supplied the returned list
\* starts with exactly that turn and holds no other system turn, the system
\* turns of the history never being returned; when the history is empty (or
\* holds system turns only) or nothing survives selection and validation, the
\* returned list is the system turn alone.
C11_SystemTurn ==
    (Done /\ system_message # NoMessage)
        => /\ output # <<>>
           /\ output[1] = system_message
           /\ \A i \in 2..Len(output) : ~IsSystem(output[i])
           /\ ((\A i \in 1..Len(messages) : IsSystem(messages[i])) \/ validated_messages = <<>>)
                  => output = <<system_message>>

\* a history with a system turn of its own and a turn that is returned
C11_Witness ==
    /\ Done
    /\ system_message # NoMessage
    /\ \E i \in 1..Len(messages) : IsSystem(messages[i])
    /\ Len(output) > 1

\* the tool-result turns that directly follow a turn and answer an id it declares
RECURSIVE AnswerRun(_, _, _)
AnswerRun(filtered, j, declared) ==
    IF j <= Len(filtered) /\ IsTool(filtered[j]) /\ filtered[j].tool_call_id \in declared
    THEN <<filtered[j]>> \o AnswerRun(filtered, j + 1, declared)
    ELSE <<>>

\* two tool-result turns of the run answer the same id
HasRepeat(run) ==
    \E a, b \in 1..Len(run) : a < b /\ run[a].tool_call_id = run[b].tool_call_id

Grouped == pc \in {"select", "validate", "final", "return", "done"}

\* C12 (a repeated tool result stays in its group): a tool-result turn that
\* repeats an id already answered in the open tool group is kept inside that
\* group and neither closes it nor changes its completeness, so an assistant
\* turn followed by answers to its ids, one of them repeated, is grouped as one
\* group with all those answers, complete exactly when every declared id is
\* answered: [assistant(t1,t2), result t1, result t1, result t2] is one
\* complete group.
C12_DuplicateKeptInGroup ==
    Grouped =>
        \A i \in 1..Len(filtered_messages) :
            LET declared == RequiredIdsOf(filtered_messages[i])
                run == AnswerRun(filtered_messages, i + 1, declared)
            IN  (HasToolCalls(filtered_messages[i]) /\ HasRepeat(run))
                    => \E s \in 1..Len(sequences) :
                           /\ sequences[s].seq = <<filtered_messages[i]>> \o run
                           /\ sequences[s].is_complete = (ToolIdsOf(run) = declared)

\* C13 (tool calls without ids): an assistant turn whose tool calls carry no
\* id is grouped as a complete group with nothing to wait for, and when the
\* history fits both budgets that turn is in the returned list.
C13_IdlessCallsDelivered ==
    Done =>
        \A i \in 1..Len(filtered_messages) :
            (/\ HasToolCalls(filtered_messages[i])
             /\ RequiredIdsOf(filtered_messages[i]) = {}
             /\ WithinBudgets(filtered_messages))
                => /\ \E s \in 1..Len(sequences) :
                          /\ sequences[s].seq = <<filtered_messages[i]>>
                          /\ sequences[s].is_complete
                   /\ InOutput(filtered_messages[i])

\* the final check has run
FinalChecked == pc \in {"return", "done"}

\* the ids answered by the tool-result turns that directly follow msgs[i]
ToolRunIds(msgs, i) ==
    { msgs[j].tool_call_id : j \in { n \in (i + 1)..Len(msgs) :
          \A m \in (i + 1)..n : IsTool(msgs[m]) } }

\* every assistant turn with tool calls declares an id and is directly
\* followed by an answer to each id it declares
EveryCallAnswered(msgs) ==
    \A i \in 1..Len(msgs) :
        HasToolCalls(msgs[i])
            => /\ RequiredIdsOf(msgs[i]) # {}
               /\ RequiredIdsOf(msgs[i]) \subseteq ToolRunIds(msgs, i)

AcceptedAreNewer ==
    \A j \in 1..sel.k : \A n \in 1..Len(sequences[j].seq) :
        \A m \in Range(sel.messages_to_add) : m.pos > sequences[j].seq[n].pos

\* C15 (no gap-filling): the scan goes from the newest sequence to the oldest;
\* an incomplete tool sequence, or an oversized one met after something was
\* accepted, is passed over with the scan going on and both budget counters
\* unchanged; the first sequence refused for max_messages or
\* max_tokens_approx ends the scan, so that nothing older than it is accepted
\* later and the returned list holds, besides the system turn, accepted turns
\* only, even when an older turn would fit.
C15_NoGapFilling ==
    [][/\ (pc = "select" /\ sel.k > 0)
              => IF IncompleteNow
                    \/ (HasOversized(sequences[sel.k].seq) /\ sel.messages_to_add # <<>>)
                 THEN Skipped
                 ELSE IF FitsNow THEN Accepted
                 ELSE ScanEnded /\ AcceptedAreNewer
       /\ ((pc = "select" /\ sel.k = 0) \/ pc \in {"validate", "final", "return"})
              => Range(sel'.messages_to_add) = Range(sel.messages_to_add)
       /\ pc = "return"
              => \A i \in 1..Len(output') :
                     output'[i] = system_message \/ output'[i] \in Range(sel.messages_to_add)]_vars

\* the scan ended at a refused sequence and an older user or plain assistant
\* turn that fits what is left of both budgets is not in the returned list
C15_Witness ==
    /\ Done
    /\ sel.stopped
    /\ \E i \in 1..Len(filtered_messages) :
           /\ IsSimpleTurn(filtered_messages[i])
           /\ ~InOutput(filtered_messages[i])
           /\ sel.message_count + 1 <= max_messages
           /\ sel.total_tokens_approx + get_message_tokens(filtered_messages[i]) <= max_tokens_approx

\* C16 (one declared-id set for both tool-call shapes): grouping and
\* validation read the same ids from an assistant turn, whether its tool calls
\* are objects with an id attribute or mappings with an id key, so that an
\* assistant turn followed by one tool result for each of its ids is grouped as
\* one tool sequence, complete as validation finds it.
C16_SameDeclaredIds ==
    Grouped =>
        /\ \A i \in 1..Len(filtered_messages) :
               HasToolCalls(filtered_messages[i])
                   => PendingIdsOf(filtered_messages[i]) = RequiredIdsOf(filtered_messages[i])
        /\ IsOneCompleteToolGroup(filtered_messages)
               => sequences = <<Sequence(filtered_messages, TRUE)>>

====
